---- MODULE Spec2Model ----
(***************************************************************************)
(* Verification model of the active_note blinky logic.                     *)
(*                                                                         *)
(*   src/src/lib.rs     BlinkyState, BlinkyConfig, BlinkyPattern           *)
(*                      (the unbounded pattern generator, `next`/`reset`)  *)
(*   src/src/blinky.rs  BlinkyConfig, BlinkyController                     *)
(*                      (the count-bounded controller, `step`)             *)
(*                                                                         *)
(* Integer widths are scaled: a u32 is U32Bits wide and a u64 is U64Bits   *)
(* wide, so that the ends of the ranges are reached by the model checker.  *)
(***************************************************************************)
EXTENDS Integers, Sequences, FiniteSets, TLC

VARIABLES
    pattern,        \* the BlinkyPattern {state, config, cycle_count}, or NoPattern
    pattern_op,     \* the last operation called on the pattern
    next_ret,       \* the pair returned by the last BlinkyPattern::next
    since_reset,    \* the next calls since the engine was created or last reset
    twin,           \* a new engine of the same config, stepped beside a reset one
    controller,     \* the BlinkyController {config, state, blink_count}, or NoController
    new_arg,        \* the config passed to the last BlinkyController::new
    new_ret,        \* the Result tag of the last BlinkyController::new
    ctrl_op,        \* the last operation called on the controller
    step_ret,       \* the Option<u64> returned by the last step
    continue_ret,   \* the bool returned by the last should_continue
    led,            \* the calls the controller made on its Led, oldest first
    panicked,       \* an arithmetic-overflow panic has aborted the program
    fn_op,          \* the last pure function called on its own
    fn_arg,         \* the argument it was called with
    fn_ret,         \* what it returned
    run_pc,         \* where run_async is: idle, step, delay, done, rejected, aborted
    delays          \* the durations run_async called delay_ms with, oldest first

vars == <<pattern, pattern_op, next_ret, since_reset, twin, controller, new_arg, new_ret, ctrl_op,
          step_ret, continue_ret, led, panicked, fn_op, fn_arg, fn_ret,
          run_pc, delays>>

pattern_vars == <<pattern, pattern_op, next_ret, since_reset, twin>>
controller_vars ==
    <<controller, new_arg, new_ret, ctrl_op, step_ret, continue_ret, led, panicked>>
fn_vars == <<fn_op, fn_arg, fn_ret>>
run_vars == <<run_pc, delays>>

----------------------------------------------------------------------------
(* Bounds of the model *)

\* width in bits of the model's u32 (cycle_count, blink_count, count, lib.rs durations)
U32Bits == 3
\* width in bits of the model's u64 (blinky.rs durations)
U64Bits == 4
\* durations 0..MaxDuration are tried, together with the type's maximum
MaxDuration == 2

U32_MAX == 2^U32Bits - 1
U64_MAX == 2^U64Bits - 1

U32 == 0..U32_MAX

\* the number of Led calls after which the driver stops stepping: enough for an
\* unbounded controller to count through the whole u32 range and one blink more
MaxLedCalls == 2 * (U32_MAX + 2)

----------------------------------------------------------------------------
(* src/src/lib.rs: BlinkyState *)

On == "On"
Off == "Off"
BlinkyState == {On, Off}

\* the value *self holds after toggle(&mut self)
State_toggle_AlwaysOn(self) == On

State_toggle(self) ==
    CASE self = On -> Off
      [] self = Off -> On

\* next(&self) -> Self
State_next_Same(self) == self

State_next(self) ==
    CASE self = On -> Off
      [] self = Off -> On

\* as_bool(&self) -> bool
State_as_bool(self) == self = On

\* Display
State_fmt(self) ==
    CASE self = On -> "ON"
      [] self = Off -> "OFF"

----------------------------------------------------------------------------
(* src/src/lib.rs: BlinkyConfig (u32 durations, no count) *)

PatternDurations == (0..MaxDuration) \cup {U32_MAX}

PatternConfig_new(on_duration_ms, off_duration_ms) ==
    [on_duration_ms |-> on_duration_ms, off_duration_ms |-> off_duration_ms]

PatternConfigs ==
    {PatternConfig_new(on, off) : on \in PatternDurations, off \in PatternDurations}

PatternConfig_duration_for_state_Swapped(self, state) ==
    CASE state = On -> self.off_duration_ms
      [] state = Off -> self.on_duration_ms

PatternConfig_duration_for_state(self, state) ==
    CASE state = On -> self.on_duration_ms
      [] state = Off -> self.off_duration_ms

PatternConfig_is_valid_OnOnly(self) == self.on_duration_ms > 0

PatternConfig_is_valid_EitherPositive(self) ==
    self.on_duration_ms > 0 \/ self.off_duration_ms > 0

PatternConfig_is_valid(self) ==
    self.on_duration_ms > 0 /\ self.off_duration_ms > 0

----------------------------------------------------------------------------
(* src/src/lib.rs: BlinkyPattern *)

NoPattern == [none |-> TRUE]
NoReturn == <<>>

\* u32::saturating_add
saturating_add_Wrapping(x, y) == (x + y) % (U32_MAX + 1)

saturating_add_Unclamped(x, y) == x + y

saturating_add(x, y) ==
    IF x + y > U32_MAX THEN U32_MAX ELSE x + y

Pattern_new(config) ==
    [state |-> Off, config |-> config, cycle_count |-> 0]

\* next(&mut self): the engine after the call and the pair it returns
Pattern_next_CountsEveryEdge(self) ==
    LET toggled == State_toggle(self.state)
        count == saturating_add(self.cycle_count, 1)
    IN [self |-> [self EXCEPT !.state = toggled, !.cycle_count = count],
        ret |-> <<toggled, PatternConfig_duration_for_state(self.config, toggled)>>]

Pattern_next(self) ==
    LET toggled == State_toggle(self.state)
        count == IF toggled = On
                 THEN saturating_add(self.cycle_count, 1)
                 ELSE self.cycle_count
        duration == PatternConfig_duration_for_state(self.config, toggled)
    IN [self |-> [self EXCEPT !.state = toggled, !.cycle_count = count],
        ret |-> <<toggled, duration>>]

\* reset(&mut self)
Pattern_reset_KeepsCount(self) == [self EXCEPT !.state = Off]

Pattern_reset(self) == [self EXCEPT !.state = Off, !.cycle_count = 0]

\* set_cycle_count_for_test(&mut self, count)
Pattern_set_cycle_count_for_test(self, count) == [self EXCEPT !.cycle_count = count]

----------------------------------------------------------------------------
(* Operations on the pattern engine *)

\* since_reset counts the next calls made on an engine since it was created or
\* last reset and how many of them returned On and Off; the count is given up
\* when the counter is set by hand and after MaxTrackedCalls calls
Untracked == [untracked |-> TRUE]
NoCallsYet == [calls |-> 0, on_returned |-> 0, off_returned |-> 0]
MaxTrackedCalls == 2 * U32_MAX + 1

CountCall(tracked, returned_state) ==
    IF tracked = Untracked \/ tracked.calls >= MaxTrackedCalls
    THEN Untracked
    ELSE [calls |-> tracked.calls + 1,
          on_returned |-> tracked.on_returned + (IF returned_state = On THEN 1 ELSE 0),
          off_returned |-> tracked.off_returned + (IF returned_state = Off THEN 1 ELSE 0)]

\* twin is the engine BlinkyPattern::new builds from the config of an engine at
\* the moment that engine is reset, with the pair its last next returned; every
\* next of the reset engine is called on the twin too. There is no twin before
\* the first reset and after the counter is set by hand.
NoTwin == [none |-> TRUE]

TwinNext(t) ==
    IF t = NoTwin
    THEN NoTwin
    ELSE [engine |-> Pattern_next(t.engine).self, ret |-> Pattern_next(t.engine).ret]

PatternNew(config) ==
    /\ pattern' = Pattern_new(config)
    /\ pattern_op' = "new"
    /\ next_ret' = NoReturn
    /\ since_reset' = NoCallsYet
    /\ twin' = NoTwin
    /\ UNCHANGED <<controller_vars, fn_vars, run_vars>>

PatternNext ==
    /\ pattern # NoPattern
    /\ pattern' = Pattern_next(pattern).self
    /\ next_ret' = Pattern_next(pattern).ret
    /\ since_reset' = CountCall(since_reset, Pattern_next(pattern).ret[1])
    /\ twin' = TwinNext(twin)
    /\ pattern_op' = "next"
    /\ UNCHANGED <<controller_vars, fn_vars, run_vars>>

PatternReset ==
    /\ pattern # NoPattern
    /\ pattern' = Pattern_reset(pattern)
    /\ pattern_op' = "reset"
    /\ since_reset' = NoCallsYet
    /\ twin' = [engine |-> Pattern_new(pattern.config), ret |-> NoReturn]
    /\ UNCHANGED <<next_ret>>
    /\ UNCHANGED <<controller_vars, fn_vars, run_vars>>

PatternSetCycleCountForTest(count) ==
    /\ pattern # NoPattern
    /\ pattern' = Pattern_set_cycle_count_for_test(pattern, count)
    /\ pattern_op' = "set_cycle_count_for_test"
    /\ since_reset' = Untracked
    /\ twin' = NoTwin
    /\ UNCHANGED <<next_ret>>
    /\ UNCHANGED <<controller_vars, fn_vars, run_vars>>

----------------------------------------------------------------------------
(* src/src/blinky.rs: Option and Result values *)

None == <<"None">>
Some(x) == <<"Some", x>>
is_some(o) == o[1] = "Some"
unwrap(o) == o[2]
NotReturned == <<"NotReturned">>

Ok == "Ok"
ErrBothZero == "Both on and off durations cannot be zero"
ErrCountZero == "Blink count cannot be zero"

----------------------------------------------------------------------------
(* src/src/blinky.rs: BlinkyConfig (u64 durations, optional u32 count) *)

ControllerDurations == (0..MaxDuration) \cup {U64_MAX}

Config_new(on_duration_ms, off_duration_ms) ==
    [on_duration_ms |-> on_duration_ms,
     off_duration_ms |-> off_duration_ms,
     count |-> None]

Config_with_count(self, count) == [self EXCEPT !.count = Some(count)]

ControllerConfigs ==
    LET plain == {Config_new(on, off) :
                    on \in ControllerDurations, off \in ControllerDurations}
    IN plain \cup {Config_with_count(c, n) : c \in plain, n \in U32}

\* period_ms(&self) -> u64, `on_duration_ms + off_duration_ms` on u64: the sum
\* when it fits; otherwise a panic when the build checks overflow and the
\* wrapped sum when it does not
Config_period_ms(self) ==
    LET sum == self.on_duration_ms + self.off_duration_ms
    IN IF sum <= U64_MAX
       THEN {[panic |-> FALSE, value |-> sum]}
       ELSE {[panic |-> TRUE, value |-> NotReturned],
             [panic |-> FALSE, value |-> sum % (U64_MAX + 1)]}

\* validate(&self) -> Result<(), &'static str>
Config_validate_EitherZero(self) ==
    IF self.on_duration_ms = 0 \/ self.off_duration_ms = 0
    THEN ErrBothZero
    ELSE IF is_some(self.count) /\ unwrap(self.count) = 0
         THEN ErrCountZero
         ELSE Ok

Config_validate(self) ==
    IF self.on_duration_ms = 0 /\ self.off_duration_ms = 0
    THEN ErrBothZero
    ELSE IF is_some(self.count) /\ unwrap(self.count) = 0
         THEN ErrCountZero
         ELSE Ok

----------------------------------------------------------------------------
(* src/src/blinky.rs: BlinkyController *)

NoController == [none |-> TRUE]

\* new(config) -> Result<Self, &'static str>
Controller_new(config) ==
    IF Config_validate(config) # Ok
    THEN [ret |-> Config_validate(config), self |-> NoController]
    ELSE [ret |-> Ok,
          self |-> [config |-> config, state |-> Off, blink_count |-> 0]]

\* should_continue(&self) -> bool
Controller_should_continue_Inclusive(self) ==
    IF is_some(self.config.count)
    THEN self.blink_count <= unwrap(self.config.count)
    ELSE TRUE

Controller_should_continue(self) ==
    IF is_some(self.config.count)
    THEN self.blink_count < unwrap(self.config.count)
    ELSE TRUE

\* `x += 1` on a u32: the sum when it fits; otherwise a panic when the build
\* checks overflow (debug profile) and the wrapped sum when it does not (release)
add_assign_one_Forgets(x) == {[panic |-> FALSE, value |-> x]}

add_assign_one(x) ==
    IF x + 1 <= U32_MAX
    THEN {[panic |-> FALSE, value |-> x + 1]}
    ELSE {[panic |-> TRUE, value |-> x],
          [panic |-> FALSE, value |-> (x + 1) % (U32_MAX + 1)]}

\* step, the `BlinkyState::Off` arm: the one outcome of the call
step_from_off_KeepsState(self, led_calls) ==
    {[self |-> self,
      led |-> Append(led_calls, "set_high"),
      ret |-> Some(self.config.on_duration_ms),
      panic |-> FALSE]}

step_from_off_ReturnsOffDuration(self, led_calls) ==
    {[self |-> [self EXCEPT !.state = On],
      led |-> Append(led_calls, "set_high"),
      ret |-> Some(self.config.off_duration_ms),
      panic |-> FALSE]}

step_from_off(self, led_calls) ==
    {[self |-> [self EXCEPT !.state = On],
      led |-> Append(led_calls, "set_high"),
      ret |-> Some(self.config.on_duration_ms),
      panic |-> FALSE]}

\* step, the `BlinkyState::On` arm: one outcome for each outcome of the increment
step_from_on_CountsDown(self, led_calls) ==
    LET left == IF is_some(self.config.count)
                THEN Some(unwrap(self.config.count) - 1)
                ELSE None
    IN {[self |-> [self EXCEPT !.state = Off, !.config.count = left],
         led |-> Append(led_calls, "set_low"),
         ret |-> IF left = Some(0) THEN None ELSE Some(self.config.off_duration_ms),
         panic |-> FALSE]}

step_from_on(self, led_calls) ==
    LET lowered == Append(led_calls, "set_low")
        off == [self EXCEPT !.state = Off]
    IN {IF sum.panic
        THEN [self |-> off, led |-> lowered, ret |-> NotReturned, panic |-> TRUE]
        ELSE LET counted == [off EXCEPT !.blink_count = sum.value]
             IN [self |-> counted,
                 led |-> lowered,
                 ret |-> IF Controller_should_continue(counted)
                         THEN Some(self.config.off_duration_ms)
                         ELSE None,
                 panic |-> FALSE]
        : sum \in add_assign_one(self.blink_count)}

\* step(&mut self, led) -> Option<u64>: the outcomes of one call, each with the
\* controller and the Led calls after it, the value returned and whether it panicked
Controller_step_NoEarlyExit(self, led_calls) ==
    CASE self.state = Off -> step_from_off(self, led_calls)
      [] self.state = On -> step_from_on(self, led_calls)

Controller_step(self, led_calls) ==
    IF ~Controller_should_continue(self)
    THEN {[self |-> self, led |-> led_calls, ret |-> None, panic |-> FALSE]}
    ELSE CASE self.state = Off -> step_from_off(self, led_calls)
           [] self.state = On -> step_from_on(self, led_calls)

----------------------------------------------------------------------------
(* Operations on the controller *)

\* the driver builds a controller, together with a fresh Led for it
ControllerNew(config) ==
    /\ ~panicked
    /\ controller' = Controller_new(config).self
    /\ new_arg' = config
    /\ new_ret' = Controller_new(config).ret
    /\ ctrl_op' = "new"
    /\ step_ret' = NotReturned
    /\ led' = <<>>
    /\ UNCHANGED <<continue_ret, panicked>>
    /\ UNCHANGED <<pattern_vars, fn_vars, run_vars>>

ControllerShouldContinue ==
    /\ ~panicked
    /\ controller # NoController
    /\ continue_ret' = Controller_should_continue(controller)
    /\ ctrl_op' = "should_continue"
    /\ UNCHANGED <<controller, new_arg, new_ret, step_ret, led, panicked>>
    /\ UNCHANGED <<pattern_vars, fn_vars, run_vars>>

ControllerStep ==
    /\ ~panicked
    /\ controller # NoController
    /\ Len(led) < MaxLedCalls
    /\ \E out \in Controller_step(controller, led) :
          /\ controller' = out.self
          /\ led' = out.led
          /\ step_ret' = out.ret
          /\ panicked' = out.panic
    /\ ctrl_op' = "step"
    /\ UNCHANGED <<new_arg, new_ret, continue_ret>>
    /\ UNCHANGED <<pattern_vars, fn_vars, run_vars>>

----------------------------------------------------------------------------
(* src/src/blinky.rs: run_async, on a controller built for it *)

\* the driver builds a controller and a fresh Led and delay, and calls run_async
\* on them when the controller was built
RunStart(config) ==
    /\ run_pc = "idle"
    /\ controller' = Controller_new(config).self
    /\ new_arg' = config
    /\ new_ret' = Controller_new(config).ret
    /\ ctrl_op' = "new"
    /\ step_ret' = NotReturned
    /\ led' = <<>>
    /\ delays' = <<>>
    /\ run_pc' = IF Controller_new(config).ret = Ok THEN "step" ELSE "rejected"
    /\ UNCHANGED <<continue_ret, panicked>>
    /\ UNCHANGED <<pattern_vars, fn_vars>>

\* `while let Some(duration) = self.step(led)`, up to the delay_ms call
RunStep ==
    /\ run_pc = "step"
    /\ Len(led) < MaxLedCalls
    /\ \E out \in Controller_step(controller, led) :
          /\ controller' = out.self
          /\ led' = out.led
          /\ step_ret' = out.ret
          /\ panicked' = out.panic
          /\ run_pc' = IF out.panic THEN "aborted"
                       ELSE IF is_some(out.ret) THEN "delay" ELSE "done"
          /\ delays' = IF ~out.panic /\ is_some(out.ret)
                       THEN Append(delays, unwrap(out.ret))
                       ELSE delays
    /\ ctrl_op' = "step"
    /\ UNCHANGED <<new_arg, new_ret, continue_ret>>
    /\ UNCHANGED <<pattern_vars, fn_vars>>

\* `.await`: the delay completes and the loop goes round
RunDelayCompletes ==
    /\ run_pc = "delay"
    /\ run_pc' = "step"
    /\ UNCHANGED <<delays, controller_vars, pattern_vars, fn_vars>>

----------------------------------------------------------------------------
(* The two engines driven step for step on equal durations *)

\* a BlinkyPattern and an unbounded BlinkyController (no count) are built from
\* the same on and off durations, the controller with a fresh Led
LockStart(on_duration_ms, off_duration_ms) ==
    /\ pattern_op = "none"
    /\ ctrl_op = "none"
    /\ pattern' = Pattern_new(PatternConfig_new(on_duration_ms, off_duration_ms))
    /\ pattern_op' = "new"
    /\ next_ret' = NoReturn
    /\ since_reset' = NoCallsYet
    /\ twin' = NoTwin
    /\ controller' = Controller_new(Config_new(on_duration_ms, off_duration_ms)).self
    /\ new_arg' = Config_new(on_duration_ms, off_duration_ms)
    /\ new_ret' = Controller_new(Config_new(on_duration_ms, off_duration_ms)).ret
    /\ ctrl_op' = "new"
    /\ step_ret' = NotReturned
    /\ led' = <<>>
    /\ UNCHANGED <<continue_ret, panicked, fn_vars, run_vars>>

\* the k-th next on the pattern and the k-th step on the controller
LockStep ==
    /\ ~panicked
    /\ pattern # NoPattern
    /\ controller # NoController
    /\ Len(led) < MaxLedCalls
    /\ pattern' = Pattern_next(pattern).self
    /\ next_ret' = Pattern_next(pattern).ret
    /\ since_reset' = CountCall(since_reset, Pattern_next(pattern).ret[1])
    /\ twin' = TwinNext(twin)
    /\ pattern_op' = "next"
    /\ \E out \in Controller_step(controller, led) :
          /\ controller' = out.self
          /\ led' = out.led
          /\ step_ret' = out.ret
          /\ panicked' = out.panic
    /\ ctrl_op' = "step"
    /\ UNCHANGED <<new_arg, new_ret, continue_ret, fn_vars, run_vars>>

----------------------------------------------------------------------------
(* Calls of the pure functions, each on an argument of its domain *)

CallValidate(config) ==
    /\ fn_op' = "validate"
    /\ fn_arg' = config
    /\ fn_ret' = Config_validate(config)
    /\ UNCHANGED <<pattern_vars, controller_vars, run_vars>>

CallPeriod(config) ==
    /\ fn_op' = "period_ms"
    /\ fn_arg' = config
    /\ \E out \in Config_period_ms(config) : fn_ret' = out
    /\ UNCHANGED <<pattern_vars, controller_vars, run_vars>>

CallIsValid(config) ==
    /\ fn_op' = "is_valid"
    /\ fn_arg' = config
    /\ fn_ret' = PatternConfig_is_valid(config)
    /\ UNCHANGED <<pattern_vars, controller_vars, run_vars>>

\* the same pair of durations given to both variants' configs, no count set
CallIsValidAndValidate(on_duration_ms, off_duration_ms) ==
    /\ fn_op' = "is_valid, validate"
    /\ fn_arg' = <<on_duration_ms, off_duration_ms>>
    /\ fn_ret' = <<PatternConfig_is_valid(
                      PatternConfig_new(on_duration_ms, off_duration_ms)),
                   Config_validate(Config_new(on_duration_ms, off_duration_ms))>>
    /\ UNCHANGED <<pattern_vars, controller_vars, run_vars>>

\* let mut t = s; t.toggle(); (t after one toggle); t.toggle(); (t after two)
CallToggleTwice(s) ==
    /\ fn_op' = "toggle"
    /\ fn_arg' = s
    /\ fn_ret' = <<State_toggle(s), State_toggle(State_toggle(s))>>
    /\ UNCHANGED <<pattern_vars, controller_vars, run_vars>>

\* s.next(), next to a copy of s toggled; next takes &self, so s is as it was
CallNextAndToggle(s) ==
    /\ fn_op' = "next"
    /\ fn_arg' = s
    /\ fn_ret' = [next |-> State_next(s), toggled |-> State_toggle(s), self |-> s]
    /\ UNCHANGED <<pattern_vars, controller_vars, run_vars>>

----------------------------------------------------------------------------
(* Specifications *)

Init ==
    /\ pattern = NoPattern
    /\ pattern_op = "none"
    /\ next_ret = NoReturn
    /\ since_reset = Untracked
    /\ twin = NoTwin
    /\ controller = NoController
    /\ new_arg = [none |-> TRUE]
    /\ new_ret = "none"
    /\ ctrl_op = "none"
    /\ step_ret = NotReturned
    /\ continue_ret = FALSE
    /\ led = <<>>
    /\ panicked = FALSE
    /\ fn_op = "none"
    /\ fn_arg = <<>>
    /\ fn_ret = <<>>
    /\ run_pc = "idle"
    /\ delays = <<>>

PatternStep ==
    \/ \E config \in PatternConfigs : PatternNew(config)
    \/ PatternNext
    \/ PatternReset
    \/ \E count \in U32 : PatternSetCycleCountForTest(count)

PatternSpec == Init /\ [][PatternStep]_vars

ControllerAction ==
    \/ \E config \in ControllerConfigs : ControllerNew(config)
    \/ ControllerShouldContinue
    \/ ControllerStep

ControllerSpec == Init /\ [][ControllerAction]_vars

FunctionCall ==
    \/ \E config \in ControllerConfigs : CallValidate(config)
    \/ \E config \in ControllerConfigs : CallPeriod(config)
    \/ \E config \in PatternConfigs : CallIsValid(config)
    \/ \E on \in PatternDurations, off \in PatternDurations :
          CallIsValidAndValidate(on, off)
    \/ \E s \in BlinkyState : CallToggleTwice(s)
    \/ \E s \in BlinkyState : CallNextAndToggle(s)

FunctionSpec == Init /\ [][FunctionCall]_vars

RunAction ==
    \/ \E config \in ControllerConfigs : RunStart(config)
    \/ RunStep
    \/ RunDelayCompletes

LockAction ==
    \/ \E on \in PatternDurations, off \in PatternDurations : LockStart(on, off)
    \/ LockStep

LockStepSpec == Init /\ [][LockAction]_vars

\* a program drives one engine: a BlinkyPattern (as src/src/main.rs does), a
\* BlinkyController step by step, or a BlinkyController through run_async
EngineAction ==
    \/ (ctrl_op = "none" /\ PatternStep)
    \/ (pattern_op = "none" /\ run_pc = "idle" /\ ControllerAction)
    \/ (pattern_op = "none" /\ (ctrl_op = "none" \/ run_pc # "idle") /\ RunAction)

EngineSpec == Init /\ [][EngineAction]_vars

\* step is synchronous code and runs on; every delay completes
RunSpec ==
    Init /\ [][RunAction]_vars /\ WF_vars(RunStep) /\ WF_vars(RunDelayCompletes)

----------------------------------------------------------------------------
(* Properties of the pattern engine, checked under PatternSpec *)

\* C1: BlinkyPattern::next, in any reachable state, flips the engine state and
\* returns (new state, duration), the duration being the config's on_duration_ms
\* when the new state is On and its off_duration_ms when the new state is Off.
C1_NextFlipsAndReturnsDuration ==
    [][pattern_op' = "next" =>
        /\ pattern.state = Off => pattern'.state = On
        /\ pattern.state = On => pattern'.state = Off
        /\ next_ret' = <<pattern'.state,
                         IF pattern'.state = On
                         THEN pattern.config.on_duration_ms
                         ELSE pattern.config.off_duration_ms>>]_vars

\* a next call has just turned the engine On and returned the on duration of a
\* config whose two durations differ
C1_Witness ==
    /\ pattern_op = "next"
    /\ pattern.state = On
    /\ pattern.config.on_duration_ms # pattern.config.off_duration_ms
    /\ next_ret = <<On, pattern.config.on_duration_ms>>

\* C2 as stated: every next that moves Off to On increases cycle_count by exactly
\* 1, and every next that moves On to Off leaves it unchanged.
C2_EveryRisingEdgeAddsOne ==
    [][pattern_op' = "next" =>
        /\ pattern.state = Off => pattern'.cycle_count = pattern.cycle_count + 1
        /\ pattern.state = On => pattern'.cycle_count = pattern.cycle_count]_vars

\* C2 (amended): every next that moves Off to On increases cycle_count by exactly
\* 1 while it is below the unsigned maximum and leaves it at the maximum once it
\* is there; every next that moves On to Off leaves it unchanged.
C2_RisingEdgeAddsOneBelowMax ==
    [][pattern_op' = "next" =>
        /\ pattern.state = Off /\ pattern.cycle_count < U32_MAX
              => pattern'.cycle_count = pattern.cycle_count + 1
        /\ pattern.state = Off /\ pattern.cycle_count = U32_MAX
              => pattern'.cycle_count = U32_MAX
        /\ pattern.state = On => pattern'.cycle_count = pattern.cycle_count]_vars

\* the first next of an engine has counted its first cycle
C2_Witness ==
    /\ pattern_op = "next"
    /\ next_ret # NoReturn
    /\ next_ret[1] = On
    /\ pattern.cycle_count = 1

\* C3: across next calls with no reset between them cycle_count never decreases:
\* the value after each next is at least the value before it.
C3_CycleCountNeverDecreases ==
    [][pattern_op' = "next" => pattern'.cycle_count >= pattern.cycle_count]_vars

\* a next call has turned the engine Off and kept a positive count
C3_Witness ==
    /\ pattern_op = "next"
    /\ pattern.state = Off
    /\ pattern.cycle_count > 0

\* C4: cycle_count saturates: from one below the unsigned maximum the next
\* Off-to-On transition makes it exactly the maximum, and from the maximum every
\* later transition leaves it at the maximum.
C4_CycleCountSaturates ==
    [][pattern_op' = "next" =>
        /\ pattern.state = Off /\ pattern.cycle_count = U32_MAX - 1
              => pattern'.cycle_count = U32_MAX
        /\ pattern.cycle_count = U32_MAX => pattern'.cycle_count = U32_MAX
        /\ pattern'.cycle_count <= U32_MAX]_vars

\* a next call has turned the engine On with the counter at the maximum
C4_Witness ==
    /\ pattern_op = "next"
    /\ pattern.state = On
    /\ pattern.cycle_count = U32_MAX

\* C5: BlinkyPattern::reset, after any sequence of next and reset calls, leaves
\* the engine with state Off and cycle_count 0.
C5_ResetRestoresInitialState ==
    pattern_op = "reset" => pattern.state = Off /\ pattern.cycle_count = 0

\* a reset has been called on an engine that next had turned On
C5_Witness ==
    /\ pattern_op = "reset"
    /\ next_ret # NoReturn
    /\ next_ret[1] = On
    /\ pattern.state = Off
    /\ pattern.cycle_count = 0

----------------------------------------------------------------------------
(* Properties of the controller, checked under ControllerSpec *)

\* C6: step called in state Off while should_continue is true (no count, or
\* blink_count below the count) drives the LED high, moves the controller to
\* On, leaves blink_count unchanged and returns Some(on_duration_ms).
C6_StepFromOff ==
    [][(/\ ctrl_op' = "step"
        /\ controller.state = Off
        /\ \/ controller.config.count = None
           \/ controller.blink_count < controller.config.count[2])
       =>
        /\ led' = Append(led, "set_high")
        /\ controller'.state = On
        /\ controller'.blink_count = controller.blink_count
        /\ controller'.config = controller.config
        /\ step_ret' = <<"Some", controller.config.on_duration_ms>>
        /\ ~panicked']_vars

\* a step has turned a controller On for its second blink
C6_Witness ==
    /\ ctrl_op = "step"
    /\ controller # NoController
    /\ controller.state = On
    /\ controller.blink_count = 1
    /\ led = <<"set_high", "set_low", "set_high">>
    /\ step_ret = <<"Some", controller.config.on_duration_ms>>
    /\ controller.config.on_duration_ms # controller.config.off_duration_ms

\* C7: step called in state On drives the LED low, moves the controller to Off,
\* increases blink_count by exactly 1, and returns Some(off_duration_ms) when
\* should_continue is still true after the increment, otherwise None.
C7_StepFromOn ==
    [][(ctrl_op' = "step" /\ controller.state = On)
       =>
        /\ led' = Append(led, "set_low")
        /\ controller'.state = Off
        /\ controller'.blink_count = controller.blink_count + 1
        /\ step_ret' = IF \/ controller'.config.count = None
                          \/ controller'.blink_count < controller'.config.count[2]
                       THEN <<"Some", controller.config.off_duration_ms>>
                       ELSE <<"None">>]_vars

\* C8: once step has returned None, every later step also returns None and
\* changes nothing: state, blink_count and the LED are left as they were.
C8_IdempotentlyTerminal ==
    [][(ctrl_op' = "step" /\ step_ret = <<"None">>)
       =>
        /\ step_ret' = <<"None">>
        /\ controller' = controller
        /\ led' = led
        /\ ~panicked']_vars

\* a step has returned None again after should_continue was asked in the
\* terminal state of a controller that blinked twice
C8_Witness ==
    /\ ctrl_op = "step"
    /\ step_ret = <<"None">>
    /\ continue_ret = FALSE
    /\ controller.state = Off
    /\ controller.blink_count = 2
    /\ led = <<"set_high", "set_low", "set_high", "set_low">>

\* C9: should_continue returns true exactly when no count is configured or
\* blink_count is strictly below the count: with count = N it is true at
\* blink_count 0..N-1 and false at N, and with no count it is always true.
C9_ShouldContinue ==
    ctrl_op = "should_continue" =>
        /\ continue_ret = (\/ controller.config.count = None
                           \/ controller.blink_count < controller.config.count[2])
        /\ controller.config.count = None => continue_ret
        /\ controller.config.count # None =>
              /\ controller.blink_count <= controller.config.count[2]
              /\ controller.blink_count = controller.config.count[2] => ~continue_ret
              /\ controller.blink_count < controller.config.count[2] => continue_ret

\* should_continue has returned false at blink_count = count = 3
C9_Witness ==
    /\ ctrl_op = "should_continue"
    /\ continue_ret = FALSE
    /\ controller.config.count = <<"Some", 3>>
    /\ controller.blink_count = 3

\* C10: BlinkyController::new returns an error and constructs no controller
\* exactly when both durations are zero or count = Some(0); for every other
\* config it succeeds with state Off, blink_count 0 and the supplied config.
C10_NewValidates ==
    ctrl_op = "new" =>
        IF \/ new_arg.on_duration_ms = 0 /\ new_arg.off_duration_ms = 0
           \/ new_arg.count = <<"Some", 0>>
        THEN new_ret # "Ok" /\ controller = NoController
        ELSE /\ new_ret = "Ok"
             /\ controller = [config |-> new_arg, state |-> Off, blink_count |-> 0]

\* new has accepted a config with one zero duration and a count
C10_Witness ==
    /\ ctrl_op = "new"
    /\ new_ret = "Ok"
    /\ new_arg.on_duration_ms = 0
    /\ new_arg.off_duration_ms > 0
    /\ new_arg.count = <<"Some", 1>>
    /\ controller.config = new_arg

----------------------------------------------------------------------------
(* Properties of the pure functions, checked under FunctionSpec *)

\* C11: BlinkyConfig::validate (bounded variant) returns an error if and only if
\* both durations are zero, or count is present and zero; a config with exactly
\* one zero duration and no zero count validates.
C11_ValidateRule ==
    fn_op = "validate" =>
        /\ fn_ret # "Ok" <=>
              \/ fn_arg.on_duration_ms = 0 /\ fn_arg.off_duration_ms = 0
              \/ fn_arg.count = <<"Some", 0>>
        /\ ( /\ (fn_arg.on_duration_ms = 0) # (fn_arg.off_duration_ms = 0)
             /\ fn_arg.count # <<"Some", 0>> ) => fn_ret = "Ok"

\* validate has accepted a config whose off duration alone is zero
C11_Witness ==
    /\ fn_op = "validate"
    /\ fn_arg.on_duration_ms > 0
    /\ fn_arg.off_duration_ms = 0
    /\ fn_arg.count = <<"None">>
    /\ fn_ret = "Ok"

\* C12 as stated: for every pair of durations with no count, is_valid() is true
\* exactly when validate() returns Ok.
C12_SameTruthConditions ==
    fn_op = "is_valid, validate" => (fn_ret[1] <=> fn_ret[2] = "Ok")

\* C12 (amended): for every pair of durations with no count, is_valid() true
\* implies validate() Ok, and the two disagree exactly when exactly one of the
\* durations is zero (is_valid() false, validate() Ok).
C12_IsValidIsStricter ==
    fn_op = "is_valid, validate" =>
        /\ fn_ret[1] => fn_ret[2] = "Ok"
        /\ (fn_ret[1] # (fn_ret[2] = "Ok")) <=> ((fn_arg[1] = 0) # (fn_arg[2] = 0))

\* both were asked about (0, off) with off positive: is_valid false, validate Ok
C12_Witness ==
    /\ fn_op = "is_valid, validate"
    /\ fn_arg[1] = 0
    /\ fn_arg[2] > 0
    /\ fn_ret = <<FALSE, "Ok">>

\* C13: the unbounded variant's is_valid returns false whenever either duration
\* is zero and true whenever both are positive, up to the unsigned maximum.
C13_IsValidRule ==
    fn_op = "is_valid" =>
        /\ (fn_arg.on_duration_ms = 0 \/ fn_arg.off_duration_ms = 0) => ~fn_ret
        /\ (fn_arg.on_duration_ms >= 1 /\ fn_arg.off_duration_ms >= 1) => fn_ret
        /\ fn_arg.on_duration_ms <= U32_MAX /\ fn_arg.off_duration_ms <= U32_MAX

\* is_valid has accepted (1, u32::MAX)
C13_Witness ==
    /\ fn_op = "is_valid"
    /\ fn_arg.on_duration_ms = 1
    /\ fn_arg.off_duration_ms = U32_MAX
    /\ fn_ret = TRUE

\* C18: BlinkyState::toggle is an involution with no fixed point: one toggle
\* yields a state different from s, two toggles yield s again.
C18_ToggleInvolution ==
    fn_op = "toggle" =>
        /\ fn_ret[1] \in {"On", "Off"}
        /\ fn_ret[1] # fn_arg
        /\ fn_ret[2] = fn_arg

\* On was toggled to Off and back to On
C18_Witness ==
    /\ fn_op = "toggle"
    /\ fn_arg = "On"
    /\ fn_ret = <<"Off", "On">>

\* C19: for every state s, s.next() is the state a toggled copy of s holds, and
\* the call leaves s itself unchanged.
C19_NextEqualsToggledCopy ==
    fn_op = "next" =>
        /\ fn_ret.next = fn_ret.toggled
        /\ fn_ret.self = fn_arg

\* Off.next() returned On, as the toggled copy, with s still Off
C19_Witness ==
    /\ fn_op = "next"
    /\ fn_arg = "Off"
    /\ fn_ret = [next |-> "On", toggled |-> "On", self |-> "Off"]

----------------------------------------------------------------------------
(* Properties of the pattern engine since its creation or last reset,
   checked under PatternSpec *)

\* C20: for a BlinkyPattern freshly created or just reset, after k calls to next
\* that the counter holds without saturating (ceil(k/2) <= u32::MAX), the state is
\* On exactly when k is odd, the calls returned On ceil(k/2) times and Off
\* floor(k/2) times, and cycle_count equals ceil(k/2).
C20_AfterKCalls ==
    (since_reset # Untracked /\ (since_reset.calls + 1) \div 2 <= U32_MAX) =>
        /\ (pattern.state = "On") <=> (since_reset.calls % 2 = 1)
        /\ since_reset.on_returned = (since_reset.calls + 1) \div 2
        /\ since_reset.off_returned = since_reset.calls \div 2
        /\ pattern.cycle_count = (since_reset.calls + 1) \div 2

\* five next calls after a reset: On three times, Off twice, three cycles counted
C20_Witness ==
    /\ since_reset = [calls |-> 5, on_returned |-> 3, off_returned |-> 2]
    /\ pattern_op = "next"
    /\ pattern.state = "On"
    /\ pattern.cycle_count = 3

----------------------------------------------------------------------------
(* Properties of the controller that rest on the blink counter's arithmetic,
   checked under ControllerSpec *)

\* C16: for a controller built with no count, step never returns None: every
\* call to step, after any number of previous steps, returns Some duration.
C16_UnboundedStepReturnsSome ==
    [][(ctrl_op' = "step" /\ controller.config.count = <<"None">>)
       => (step_ret'[1] = "Some" /\ ~panicked')]_vars

\* C17: step is total: after any number of step calls blink_count has not
\* overflowed or wrapped, and no step call aborts on arithmetic overflow.
C17_StepNeverOverflows ==
    [][ctrl_op' = "step"
       => (~panicked' /\ controller'.blink_count >= controller.blink_count)]_vars

----------------------------------------------------------------------------
(* Properties of run_async, checked under RunSpec *)

\* C15: for a controller built with count = N (N >= 1), run_async terminates
\* provided every delay completes, and when it returns the LED has been driven
\* high exactly N times and low exactly N times, blink_count is N and the
\* controller state is Off.
C15_BoundedRunTerminates ==
    /\ [](run_pc = "done" /\ controller.config.count # <<"None">> =>
            /\ Cardinality({i \in 1..Len(led) : led[i] = "set_high"})
                  = controller.config.count[2]
            /\ Cardinality({i \in 1..Len(led) : led[i] = "set_low"})
                  = controller.config.count[2]
            /\ controller.blink_count = controller.config.count[2]
            /\ controller.state = "Off")
    /\ (run_pc = "step" /\ controller.config.count # <<"None">>) ~> (run_pc = "done")

\* run_async has returned for count = 3 after three blinks
C15_Witness ==
    /\ run_pc = "done"
    /\ controller.config.count = <<"Some", 3>>
    /\ controller.blink_count = 3
    /\ led = <<"set_high", "set_low", "set_high", "set_low", "set_high", "set_low">>

----------------------------------------------------------------------------
(* Properties of a reset pattern engine, checked under PatternSpec *)

\* C25: after reset a BlinkyPattern behaves exactly like a freshly created one
\* with the same config: whatever came before the reset, after every number of
\* next calls the engine (state, cycle_count, config) and the pair returned are
\* those of a new engine given the same calls; the first call returns On with
\* cycle_count 1.
C25_ResetBehavesLikeNew ==
    twin # NoTwin =>
        /\ pattern = twin.engine
        /\ pattern_op = "next" =>
              /\ next_ret = twin.ret
              /\ (since_reset # Untracked /\ since_reset.calls = 1) =>
                    (next_ret[1] = "On" /\ pattern.cycle_count = 1)

\* three next calls after a reset, the engine two cycles on like its twin
C25_Witness ==
    /\ twin # NoTwin
    /\ pattern_op = "next"
    /\ since_reset = [calls |-> 3, on_returned |-> 2, off_returned |-> 1]
    /\ pattern.cycle_count = 2
    /\ twin.engine.cycle_count = 2
    /\ next_ret = <<"On", pattern.config.on_duration_ms>>
    /\ pattern.config.on_duration_ms # pattern.config.off_duration_ms

----------------------------------------------------------------------------
(* Properties of the two engines side by side, checked under LockStepSpec *)

\* C21: for equal on/off durations an unbounded BlinkyController and a
\* BlinkyPattern driven step for step emit the same: the k-th step returns
\* Some(d) with d the duration the k-th next returned, the LED is driven high
\* exactly when next returns On and low exactly when it returns Off, and the
\* controller state equals the pattern state after every step.
C21_VariantsEmitTheSame ==
    [][ctrl_op' = "step" =>
        /\ ~panicked'
        /\ step_ret' = <<"Some", next_ret'[2]>>
        /\ led' = Append(led, IF next_ret'[1] = "On" THEN "set_high" ELSE "set_low")
        /\ controller'.state = pattern'.state]_vars

----------------------------------------------------------------------------
(* Properties of run_async's delays, checked under RunSpec *)

\* the duration run_async owes after the i-th Led call of the run
DelayOwedAfter(i) ==
    IF led[i] = "set_high"
    THEN controller.config.on_duration_ms
    ELSE controller.config.off_duration_ms

\* C22: in run_async there is exactly one delay call per duration returned by
\* step, made with that duration and only after the LED has been driven for that
\* step: each set_high is followed by a delay of on_duration_ms, each set_low
\* that does not end the run by a delay of off_duration_ms, and the LED does not
\* change while a delay is pending.
C22_OneDelayPerDuration ==
    /\ [](run_pc \in {"step", "delay", "done", "aborted"} =>
            /\ \A i \in 1..Len(delays) :
                  i <= Len(led) /\ delays[i] = DelayOwedAfter(i)
            /\ run_pc \in {"step", "delay"} => Len(delays) = Len(led)
            /\ run_pc \in {"done", "aborted"} =>
                  /\ Len(delays) = Len(led) - 1
                  /\ led[Len(led)] = "set_low")
    /\ [][/\ (run_pc = "step" /\ is_some(step_ret')) =>
                /\ Len(led') = Len(led) + 1
                /\ delays' = Append(delays, unwrap(step_ret'))
                /\ run_pc' = "delay"
          /\ (run_pc = "step" /\ ~is_some(step_ret')) => delays' = delays
          /\ run_pc = "delay" => (led' = led /\ delays' = delays)]_vars

C22_Witness ==
    /\ run_pc = "delay"
    /\ led = <<"set_high", "set_low", "set_high">>
    /\ delays = <<controller.config.on_duration_ms,
                  controller.config.off_duration_ms,
                  controller.config.on_duration_ms>>
    /\ controller.config.on_duration_ms # controller.config.off_duration_ms

----------------------------------------------------------------------------
(* Properties of either engine, checked under EngineSpec *)

\* C23: the configuration an engine holds is never mutated: no call of
\* BlinkyPattern::next or reset, of BlinkyController::step or should_continue,
\* or step of run_async changes the engine's on duration, off duration or count
\* from the values supplied at construction.
C23_ConfigNeverMutated ==
    [][/\ pattern_op' \in {"next", "reset"} =>
             /\ pattern'.config.on_duration_ms = pattern.config.on_duration_ms
             /\ pattern'.config.off_duration_ms = pattern.config.off_duration_ms
       /\ (ctrl_op' \in {"step", "should_continue"} \/ run_pc \in {"step", "delay"}) =>
             /\ controller'.config.on_duration_ms = new_arg.on_duration_ms
             /\ controller'.config.off_duration_ms = new_arg.off_duration_ms
             /\ controller'.config.count = new_arg.count
             /\ new_arg' = new_arg]_vars

C23_Witness ==
    /\ run_pc = "done"
    /\ ctrl_op = "step"
    /\ controller.blink_count = 2
    /\ controller.config = new_arg
    /\ new_arg.count = <<"Some", 2>>
    /\ new_arg.on_duration_ms # new_arg.off_duration_ms

----------------------------------------------------------------------------
(* Properties of the bounded controller, checked under ControllerSpec *)

\* C24 as stated: in the bounded controller blink_count increases by exactly 1
\* on each step that moves the controller from Off to On, and by 0 on each step
\* that moves it from On to Off.
C24_CountedAtOffToOn ==
    [][(ctrl_op' = "step" /\ is_some(controller.config.count)) =>
        /\ (controller.state = Off /\ controller'.state = On) =>
              controller'.blink_count = controller.blink_count + 1
        /\ (controller.state = On /\ controller'.state = Off) =>
              controller'.blink_count = controller.blink_count]_vars

\* C24 amended: in the bounded controller blink_count increases by exactly 1 on
\* each step that moves the controller from On to Off, and by 0 on each step
\* that moves it from Off to On (and on each step that takes the early exit).
C24_CountedAtOnToOff ==
    [][(ctrl_op' = "step" /\ is_some(controller.config.count)) =>
        /\ (controller.state = On /\ controller'.state = Off) =>
              controller'.blink_count = controller.blink_count + 1
        /\ (controller.state = Off /\ controller'.state = On) =>
              controller'.blink_count = controller.blink_count
        /\ controller'.state = controller.state =>
              controller'.blink_count = controller.blink_count]_vars

C24_Witness ==
    /\ ctrl_op = "step"
    /\ controller # NoController
    /\ controller.config.count = <<"Some", 3>>
    /\ controller.state = Off
    /\ controller.blink_count = 2
    /\ led = <<"set_high", "set_low", "set_high", "set_low">>

\* C26: in every reachable state of a bounded BlinkyController (count = N),
\* state On implies blink_count < N; so the early exit at the top of step is
\* only ever taken in state Off, and the controller never becomes terminal with
\* the LED left driven high.
C26_OnImpliesBelowCount ==
    (controller # NoController /\ is_some(controller.config.count)) =>
        /\ controller.state = On =>
              controller.blink_count < unwrap(controller.config.count)
        /\ ~Controller_should_continue(controller) =>
              /\ controller.state = Off
              /\ Len(led) > 0
              /\ led[Len(led)] = "set_low"
        /\ step_ret = None =>
              /\ ~Controller_should_continue(controller)
              /\ controller.state = Off

C26_Witness ==
    /\ ctrl_op = "step"
    /\ controller # NoController
    /\ controller.config.count = <<"Some", 2>>
    /\ controller.blink_count = 2
    /\ controller.state = Off
    /\ step_ret = None
    /\ led = <<"set_high", "set_low", "set_high", "set_low">>

\* C27: over any sequence of BlinkyController::step calls on one LED, the LED
\* calls strictly alternate set_high, set_low, set_high, ... starting with
\* set_high, step never calls toggle, and after every step the controller state
\* is On exactly when the most recent LED call was set_high.
C27_LedCallsAlternate ==
    /\ \A i \in 1..Len(led) :
          led[i] = (IF i % 2 = 1 THEN "set_high" ELSE "set_low")
    /\ (ctrl_op = "step" /\ controller # NoController) =>
          (controller.state = On <=>
              (Len(led) > 0 /\ led[Len(led)] = "set_high"))

C27_Witness ==
    /\ ctrl_op = "step"
    /\ controller # NoController
    /\ controller.state = On
    /\ controller.blink_count = 2
    /\ led = <<"set_high", "set_low", "set_high", "set_low", "set_high">>

----------------------------------------------------------------------------
(* Properties of a bounded run, checked under RunSpec *)

\* C28: for a controller built with count = N (N >= 1), step returns Some
\* exactly 2N-1 times before its first None: N times on_duration_ms and N-1
\* times off_duration_ms, alternating and starting with on_duration_ms; the off
\* duration after the final blink is never returned, so run_async performs 2N-1
\* delays and returns immediately after the last set_low.
C28_TwoNMinusOneDelays ==
    (run_pc \in {"step", "delay", "done"} /\ is_some(controller.config.count)) =>
        LET N == unwrap(controller.config.count)
        IN /\ N >= 1
           /\ Len(delays) <= 2 * N - 1
           /\ \A i \in 1..Len(delays) :
                 delays[i] = (IF i % 2 = 1
                              THEN controller.config.on_duration_ms
                              ELSE controller.config.off_duration_ms)
           /\ (step_ret = None <=> run_pc = "done")
           /\ run_pc = "done" =>
                 /\ Len(delays) = 2 * N - 1
                 /\ Len(led) = 2 * N
                 /\ led[2 * N] = "set_low"
           /\ run_pc # "done" => Len(led) < 2 * N

C28_Witness ==
    /\ run_pc = "done"
    /\ step_ret = None
    /\ controller.config.count = <<"Some", 3>>
    /\ Len(led) = 6
    /\ delays = <<controller.config.on_duration_ms,
                  controller.config.off_duration_ms,
                  controller.config.on_duration_ms,
                  controller.config.off_duration_ms,
                  controller.config.on_duration_ms>>
    /\ controller.config.on_duration_ms # controller.config.off_duration_ms

----------------------------------------------------------------------------
(* Properties of period_ms, checked under FunctionSpec *)

\* C29: for every config that passes validation, period_ms returns exactly
\* on_duration_ms + off_duration_ms without overflowing or wrapping the duration
\* integer type, including configs whose durations are at or near the unsigned
\* maximum.
C29_PeriodIsExactSum ==
    (fn_op = "period_ms" /\ Config_validate(fn_arg) = Ok) =>
        /\ ~fn_ret.panic
        /\ fn_ret.value = fn_arg.on_duration_ms + fn_arg.off_duration_ms

====
